---- MODULE Spec2Model ----
(***************************************************************************)
(* archcache: a hierarchical in-memory cache (Cache, index.ts) of Items    *)
(* (src/item.ts) in front of a backing store reached through the optional  *)
(* hooks loader, saver, checker and deleter.                               *)
(*                                                                         *)
(* JavaScript values are modelled as strings ("undefined", "null", "0",    *)
(* "1", ...), keys as sequences of one-character strings, a Map as the     *)
(* sequence of its entries in insertion order, and a promise returned by a *)
(* hook as a record that stays in flight until the environment settles it. *)
(* The code that runs between two awaits is one action.                    *)
(***************************************************************************)
EXTENDS Integers, Sequences, FiniteSets, TLC

VARIABLES
    nodes,      \* every Cache object constructed so far, by id; node 1 is the root
    now,        \* Date.now()
    calls,      \* hook promises awaited by fetch / store / delete / exists, in call order
    sweeps,     \* backup / cleanup calls whose Promise.all has not resolved yet
    disk,       \* the backing store behind the hooks: the value last saved or loaded, by full key
    ret,        \* what the last step returned or resolved to
    emitted     \* the events emitted by the last step, in order

vars == <<nodes, now, calls, sweeps, disk, ret, emitted>>

----------------------------------------------------------------------------
(* Bounds of the model *)

MaxTime == 2        \* the clock runs over 1..MaxTime
MaxCalls == 2       \* hook promises of fetch/store/delete/exists in flight at once
MaxNodes == 2       \* Cache objects constructed (the root and its subcaches)
MaxSweeps == 1      \* backup/cleanup promises of callers not yet resolved

----------------------------------------------------------------------------
(* JavaScript values *)

Undef == "undefined"
Values == {"0", "1"}                            \* data the caller writes
LoadValues == {"undefined", "null", "0", "1"}   \* what a loader may resolve to
SaveValues == {"undefined", "saved"}            \* what a saver may resolve to
DeleteValues == {"true"}                        \* what a deleter may resolve to
CheckValues == {"true", "false"}                \* what a checker may resolve to
HookError == "disk-full"                        \* what a hook rejects with
Falsy == {"undefined", "null", "0", "", "false"}

Chars == {"/", "a", "u"}
ItemKeys == {<<"a">>}                           \* local keys the caller uses for items
SubNames == {<<"u">>}                           \* local keys the caller uses for subcaches
IsString(key) == \A i \in 1..Len(key) : key[i] \in Chars

(* What the last step was and what it handed back: the operation called    *)
(* (step "call") or the hook promise whose settling ran the rest of an      *)
(* operation (step "settle", hook telling how the promise settled and arg   *)
(* what it resolved to).  state is "returned" for a synchronous return,     *)
(* "pending" for a promise still waiting on a hook, "resolved" or           *)
(* "rejected" for a promise that settles in this step, with val (or the     *)
(* array arr) its value.                                                    *)
NoOp == [op |-> "none", step |-> "call", node |-> 0, key |-> <<>>, arg |-> Undef,
         time |-> 0, opt |-> 0, flag |-> FALSE, hook |-> "",
         state |-> "returned", val |-> Undef, arr |-> <<>>]
Ret(op, n, key, state, val) ==
    [NoOp EXCEPT !.op = op, !.node = n, !.key = key, !.state = state, !.val = val]
RetArg(op, n, key, arg, state, val) ==
    [Ret(op, n, key, state, val) EXCEPT !.arg = arg]
Settled(op, n, key, hook, arg, state, val) ==
    [Ret(op, n, key, state, val) EXCEPT !.step = "settle", !.hook = hook, !.arg = arg]
RetSweep(kind, n, time, state, val) ==
    [Ret(kind, n, <<>>, state, val) EXCEPT !.time = time]
RetArr(kind, n, time, step, arr) ==
    [Ret(kind, n, <<>>, "resolved", "array") EXCEPT !.time = time, !.step = step, !.arr = arr]

(* An emitted event: emit(name, ...args) *)
ErrorEvent(n, phase, key) ==
    [name |-> "error", node |-> n, phase |-> phase, key |-> key, arr |-> <<>>]
SubcreateEvent(n, subkey) ==
    [name |-> "subcreate", node |-> n, phase |-> "", key |-> subkey, arr |-> <<>>]
SweepEvent(kind, n, vals) ==
    [name |-> kind, node |-> n, phase |-> "", key |-> <<>>, arr |-> vals]

----------------------------------------------------------------------------
(* KeyComposer: Cache._fixKey and Cache._subkey *)

_fixKey(sep, key) ==
    IF ~IsString(key) THEN <<sep>>
    ELSE IF Len(key) = 0 \/ key[Len(key)] # sep THEN key \o <<sep>>
    ELSE key

_subkey(sep, parentKey, key) == parentKey \o _fixKey(sep, key)

----------------------------------------------------------------------------
(* Item (src/item.ts).  An entry of a Map is an Item or a Cache; the two   *)
(* share one record shape, kind telling them apart.                        *)

Item(key, data, dirty, t) ==
    [kind |-> "Item", key |-> key, node |-> 0, data |-> data, dirty |-> dirty,
     lastAccess |-> t, lastSave |-> IF dirty THEN 0 ELSE t]

update(item, data, t) ==
    [item EXCEPT !.data = data, !.lastAccess = t, !.dirty = TRUE]

(* a variant that takes the time argument as it is, 0 included *)
markSavedAt(item, time, t) ==
    [item EXCEPT !.lastSave = time, !.dirty = FALSE]

markSaved(item, time, t) ==
    [item EXCEPT !.lastSave = IF time # 0 THEN time ELSE t, !.dirty = FALSE]

CacheEntry(key, id) ==
    [kind |-> "Cache", key |-> key, node |-> id, data |-> Undef, dirty |-> FALSE,
     lastAccess |-> 0, lastSave |-> 0]

----------------------------------------------------------------------------
(* Map<string, Item | Cache>: entries in insertion order *)

MapHas(d, k) == \E i \in 1..Len(d) : d[i].key = k
MapIndex(d, k) == CHOOSE i \in 1..Len(d) : d[i].key = k
MapGet(d, k) == d[MapIndex(d, k)]
MapSet(d, k, e) ==
    IF MapHas(d, k) THEN [d EXCEPT ![MapIndex(d, k)] = e] ELSE Append(d, e)
MapDelete(d, k) ==
    IF MapHas(d, k)
    THEN SubSeq(d, 1, MapIndex(d, k) - 1) \o SubSeq(d, MapIndex(d, k) + 1, Len(d))
    ELSE d
MapKeys(d) == [i \in 1..Len(d) |-> d[i].key]

(* The backing store behind the hooks, as far as the calls tell: under each  *)
(* full key the value a saver last wrote or a loader last read there; a     *)
(* loader that finds nothing and a deleter leave the key without a value.   *)
DiskWrite(d, fullKey, val) ==
    IF val = Undef THEN MapDelete(d, fullKey)
    ELSE MapSet(d, fullKey, [key |-> fullKey, val |-> val])

(* `for (const k in dict)` with dict a Map: for...in walks the enumerable   *)
(* string-keyed properties of the object, and a Map's entries are not       *)
(* properties of it, so the loop body runs for no key.                      *)
ForInKeys(d) == <<>>

----------------------------------------------------------------------------
(* Cache: construction *)

OptGet(opts, f) == IF f \in DOMAIN opts THEN opts[f] ELSE Undef

NewCache(opts) ==
    LET sep == IF "subcacheSeparator" \in DOMAIN opts THEN opts.subcacheSeparator ELSE "/"
    IN  [loader |-> OptGet(opts, "loader"),
         saver |-> OptGet(opts, "saver"),
         checker |-> OptGet(opts, "checker"),
         deleter |-> OptGet(opts, "deleter"),
         reviver |-> OptGet(opts, "reviver"),
         separator |-> sep,
         cacheKey |-> IF "cacheKey" \in DOMAIN opts THEN opts.cacheKey ELSE <<sep>>,
         dict |-> <<>>,
         lastAccess |-> 0]

(* The options the root is constructed with *)
RootOpts ==
    << [loader |-> "L1", saver |-> "S1", checker |-> "C1", deleter |-> "D1"],
       [loader |-> "L1", reviver |-> "wrap"],
       [loader |-> "L1", reviver |-> "throw"],
       [cacheKey |-> <<"/">>] >>

SweepRootOpts ==
    << [saver |-> "S1"],
       [loader |-> "L1"] >>
TreeRootOpts ==
    << [loader |-> "L1", saver |-> "S1"] >>
DeleteRootOpts ==
    << [loader |-> "L1"] >>

NodeIds == DOMAIN nodes
KeysOf(n) == ItemKeys \cup {nodes[n].dict[i].key : i \in 1..Len(nodes[n].dict)}

(* The value `entry.data` reads: an Item's data, or a Cache's `data` getter, *)
(* which is that Cache's Map.                                               *)
DataOf(e) == IF e.kind = "Cache" THEN "Map#" \o ToString(e.node) ELSE e.data

(* `it.lastAccess = Date.now()` on an entry: an Item's field, or the field  *)
(* of the Cache object the entry holds.                                     *)
Touch(ns, n, k, t) ==
    LET e == MapGet(ns[n].dict, k)
    IN  IF e.kind = "Cache"
        THEN [ns EXCEPT ![e.node].lastAccess = t]
        ELSE [ns EXCEPT ![n].dict = MapSet(@, k, [e EXCEPT !.lastAccess = t])]

----------------------------------------------------------------------------
(* Cache: the synchronous operations *)

(* the state after `new Cache(opts)` with opts one of `choices` *)
InitWith(choices) ==
    /\ \E i \in 1..Len(choices) : nodes = <<NewCache(choices[i])>>
    /\ now = 1
    /\ calls = <<>>
    /\ sweeps = <<>>
    /\ disk = <<>>
    /\ ret = NoOp
    /\ emitted = <<>>

Init == InitWith(RootOpts)

Tick ==
    /\ now < MaxTime
    /\ now' = now + 1
    /\ ret' = NoOp
    /\ emitted' = <<>>
    /\ UNCHANGED <<nodes, calls, sweeps, disk>>

get(n, key) ==
    /\ IF MapHas(nodes[n].dict, key)
       THEN /\ nodes' = Touch(nodes, n, key, now)
            /\ ret' = Ret("get", n, key, "returned", DataOf(MapGet(nodes[n].dict, key)))
       ELSE /\ nodes' = nodes
            /\ ret' = Ret("get", n, key, "returned", Undef)
    /\ emitted' = <<>>
    /\ UNCHANGED <<now, disk, calls, sweeps>>

has(n, key) ==
    /\ ret' = Ret("has", n, key, "returned", IF MapHas(nodes[n].dict, key) THEN "true" ELSE "false")
    /\ emitted' = <<>>
    /\ UNCHANGED <<nodes, now, disk, calls, sweeps>>

cache(n, key, value) ==
    /\ LET d == nodes[n].dict
       IN  IF MapHas(d, key) /\ MapGet(d, key).kind = "Item"
           THEN nodes' = [nodes EXCEPT ![n].dict = MapSet(d, key, update(MapGet(d, key), value, now))]
           ELSE nodes' = [nodes EXCEPT ![n].dict = MapSet(d, key, Item(key, value, TRUE, now))]
    /\ ret' = RetArg("cache", n, key, value, "returned", Undef)
    /\ emitted' = <<>>
    /\ UNCHANGED <<now, disk, calls, sweeps>>

free(n, key) ==
    /\ nodes' = [nodes EXCEPT ![n].dict = MapDelete(@, key)]
    /\ ret' = Ret("free", n, key, "returned", Undef)
    /\ emitted' = <<>>
    /\ UNCHANGED <<now, disk, calls, sweeps>>

----------------------------------------------------------------------------
(* Cache: the operations that await one hook.  A hook is called with its    *)
(* arguments and returns a promise; the call is in flight until the         *)
(* environment resolves or rejects it, and the code after the await runs    *)
(* in the same step as the settling.                                        *)

HookCall(op, n, key, hook, fullKey, data, reviver) ==
    [op |-> op, node |-> n, key |-> key, hook |-> hook, fullKey |-> fullKey,
     data |-> data, reviver |-> reviver]

RemoveAt(s, i) == SubSeq(s, 1, i - 1) \o SubSeq(s, i + 1, Len(s))

(* reviver(data): the "wrap" reviver builds a new value from the raw one,   *)
(* the "throw" reviver raises.                                              *)
Revive(reviver, data) ==
    IF reviver = Undef THEN data ELSE "R(" \o data \o ")"

(* fetch, with `found` the outcome of its test `if (item)` *)
fetchIf(n, key, found) ==
    LET d == nodes[n].dict IN
    /\ emitted' = <<>>
    /\ UNCHANGED <<now, disk, sweeps>>
    /\ IF found
       THEN /\ nodes' = Touch(nodes, n, key, now)
            /\ ret' = Ret("fetch", n, key, "resolved", DataOf(MapGet(d, key)))
            /\ calls' = calls
       ELSE IF nodes[n].loader = Undef
       THEN /\ ret' = Ret("fetch", n, key, "resolved", Undef)
            /\ UNCHANGED <<nodes, calls>>
       ELSE /\ Len(calls) < MaxCalls
            /\ calls' = Append(calls, HookCall("fetch", n, key, nodes[n].loader,
                                               nodes[n].cacheKey \o key, Undef,
                                               nodes[n].reviver))
            /\ ret' = Ret("fetch", n, key, "pending", Undef)
            /\ nodes' = nodes

(* a variant that takes an entry with falsy data for a miss *)
fetchTruthy(n, key) ==
    fetchIf(n, key, MapHas(nodes[n].dict, key)
                    /\ DataOf(MapGet(nodes[n].dict, key)) \notin Falsy)

(* a variant that shares the loader call of a fetch of the same key that is *)
(* already in flight                                                        *)
fetchCoalesced(n, key) ==
    IF /\ ~MapHas(nodes[n].dict, key)
       /\ \E i \in 1..Len(calls) :
             calls[i].op = "fetch" /\ calls[i].node = n /\ calls[i].key = key
    THEN /\ ret' = Ret("fetch", n, key, "pending", Undef)
         /\ emitted' = <<>>
         /\ UNCHANGED <<nodes, now, disk, calls, sweeps>>
    ELSE fetchIf(n, key, MapHas(nodes[n].dict, key))

(* `const item = this._dict.get(key); if (item)`: an entry is an object,    *)
(* which is truthy whatever its data                                        *)
fetch(n, key) == fetchIf(n, key, MapHas(nodes[n].dict, key))

(* The loader's promise resolves to data; `missing` is the outcome of the   *)
(* test `data === undefined`.                                               *)
fetchLoadedIf(i, data, missing) ==
    LET c == calls[i] IN
    /\ c.op = "fetch"
    /\ calls' = RemoveAt(calls, i)
    /\ disk' = DiskWrite(disk, c.fullKey, data)
    /\ UNCHANGED <<now, sweeps>>
    /\ IF missing
       THEN /\ ret' = Settled("fetch", c.node, c.key, "fulfilled", data, "resolved", Undef)
            /\ emitted' = <<>>
            /\ nodes' = nodes
       ELSE IF c.reviver = "throw"
       THEN /\ ret' = Settled("fetch", c.node, c.key, "fulfilled", data, "resolved", Undef)
            /\ emitted' = <<ErrorEvent(c.node, "fetch", c.key)>>
            /\ nodes' = nodes
       ELSE /\ nodes' = [nodes EXCEPT ![c.node].dict =
                            MapSet(@, c.key, Item(c.key, Revive(c.reviver, data), FALSE, now))]
            /\ ret' = Settled("fetch", c.node, c.key, "fulfilled", data, "resolved",
                           Revive(c.reviver, data))
            /\ emitted' = <<>>

(* a variant that takes every falsy value for "not found" *)
fetchLoadedTruthy(i, data) == fetchLoadedIf(i, data, data \in Falsy)

(* a variant that leaves a slot written while the loader was pending *)
fetchLoadedKeeping(i, data) ==
    IF data # Undef /\ calls[i].op = "fetch" /\ calls[i].reviver # "throw"
       /\ MapHas(nodes[calls[i].node].dict, calls[i].key)
    THEN /\ calls' = RemoveAt(calls, i)
         /\ disk' = DiskWrite(disk, calls[i].fullKey, data)
         /\ ret' = Settled("fetch", calls[i].node, calls[i].key, "fulfilled", data, "resolved",
                           Revive(calls[i].reviver, data))
         /\ emitted' = <<>>
         /\ UNCHANGED <<nodes, now, sweeps>>
    ELSE fetchLoadedIf(i, data, data = Undef)

fetchLoaded(i, data) == fetchLoadedIf(i, data, data = Undef)

(* a variant without the try/catch: the loader's rejection is fetch's *)
fetchFailedUncaught(i) ==
    LET c == calls[i] IN
    /\ c.op = "fetch"
    /\ calls' = RemoveAt(calls, i)
    /\ ret' = Settled("fetch", c.node, c.key, "rejected", HookError, "rejected", HookError)
    /\ emitted' = <<>>
    /\ UNCHANGED <<nodes, now, disk, sweeps>>

(* The loader's promise rejects: catch (e) { emit('error', 'fetch', key) } *)
fetchFailed(i) ==
    LET c == calls[i] IN
    /\ c.op = "fetch"
    /\ calls' = RemoveAt(calls, i)
    /\ ret' = Settled("fetch", c.node, c.key, "rejected", HookError, "resolved", Undef)
    /\ emitted' = <<ErrorEvent(c.node, "fetch", c.key)>>
    /\ UNCHANGED <<nodes, now, disk, sweeps>>

store(n, key, value) ==
    LET item == markSaved(Item(key, value, TRUE, now), 0, now) IN
    /\ nodes' = [nodes EXCEPT ![n].dict = MapSet(@, key, item)]
    /\ emitted' = <<>>
    /\ UNCHANGED <<now, disk, sweeps>>
    /\ IF nodes[n].saver # Undef
       THEN /\ Len(calls) < MaxCalls
            /\ calls' = Append(calls, HookCall("store", n, key, nodes[n].saver,
                                               nodes[n].cacheKey \o key, value, Undef))
            /\ ret' = RetArg("store", n, key, value, "pending", Undef)
       ELSE /\ calls' = calls
            /\ ret' = RetArg("store", n, key, value, "resolved", Undef)

(* saver(...).then(null, err => err): a fulfilled value passes through the  *)
(* null handler, a rejection becomes the resolved value.                    *)
storeSaved(i, result) ==
    LET c == calls[i] IN
    /\ c.op = "store"
    /\ calls' = RemoveAt(calls, i)
    /\ ret' = Settled("store", c.node, c.key, "fulfilled", result, "resolved", result)
    /\ emitted' = <<>>
    /\ disk' = DiskWrite(disk, c.fullKey, c.data)
    /\ UNCHANGED <<nodes, now, sweeps>>

storeFailed(i) ==
    LET c == calls[i] IN
    /\ c.op = "store"
    /\ calls' = RemoveAt(calls, i)
    /\ ret' = Settled("store", c.node, c.key, "rejected", HookError, "resolved", HookError)
    /\ emitted' = <<>>
    /\ UNCHANGED <<nodes, now, disk, sweeps>>

(* delete, leaving `d` as the node's Map when the deleter is called *)
deleteWith(n, key, d) ==
    /\ nodes' = [nodes EXCEPT ![n].dict = d]
    /\ emitted' = <<>>
    /\ UNCHANGED <<now, disk, sweeps>>
    /\ IF nodes[n].deleter # Undef
       THEN /\ Len(calls) < MaxCalls
            /\ calls' = Append(calls, HookCall("delete", n, key, nodes[n].deleter,
                                               nodes[n].cacheKey \o key, Undef, Undef))
            /\ ret' = Ret("delete", n, key, "pending", Undef)
       ELSE /\ calls' = calls
            /\ ret' = Ret("delete", n, key, "resolved", Undef)

(* a variant that calls the deleter with the entry still in the Map *)
deleteKeeping(n, key) ==
    deleteWith(n, key, IF nodes[n].deleter # Undef THEN nodes[n].dict
                       ELSE MapDelete(nodes[n].dict, key))

delete(n, key) == deleteWith(n, key, MapDelete(nodes[n].dict, key))

deleteDone(i, result) ==
    LET c == calls[i] IN
    /\ c.op = "delete"
    /\ calls' = RemoveAt(calls, i)
    /\ ret' = Settled("delete", c.node, c.key, "fulfilled", result, "resolved", result)
    /\ emitted' = <<>>
    /\ disk' = DiskWrite(disk, c.fullKey, Undef)
    /\ UNCHANGED <<nodes, now, sweeps>>

deleteFailed(i) ==
    LET c == calls[i] IN
    /\ c.op = "delete"
    /\ calls' = RemoveAt(calls, i)
    /\ ret' = Settled("delete", c.node, c.key, "rejected", HookError, "resolved", HookError)
    /\ emitted' = <<>>
    /\ UNCHANGED <<nodes, now, disk, sweeps>>

exists(n, key) ==
    /\ emitted' = <<>>
    /\ UNCHANGED <<nodes, now, disk, sweeps>>
    /\ IF MapHas(nodes[n].dict, key)
       THEN /\ ret' = Ret("exists", n, key, "resolved", "true")
            /\ calls' = calls
       ELSE IF nodes[n].checker # Undef
       THEN /\ Len(calls) < MaxCalls
            /\ calls' = Append(calls, HookCall("exists", n, key, nodes[n].checker,
                                               nodes[n].cacheKey \o key, Undef, Undef))
            /\ ret' = Ret("exists", n, key, "pending", Undef)
       ELSE /\ calls' = calls
            /\ ret' = Ret("exists", n, key, "resolved", "false")

(* `return this._checker(...)`: the checker's promise is the result, its    *)
(* rejection included.                                                      *)
existsChecked(i, result) ==
    LET c == calls[i] IN
    /\ c.op = "exists"
    /\ calls' = RemoveAt(calls, i)
    /\ ret' = Settled("exists", c.node, c.key, "fulfilled", result, "resolved", result)
    /\ emitted' = <<>>
    /\ UNCHANGED <<nodes, now, disk, sweeps>>

existsFailed(i) ==
    LET c == calls[i] IN
    /\ c.op = "exists"
    /\ calls' = RemoveAt(calls, i)
    /\ ret' = Settled("exists", c.node, c.key, "rejected", HookError, "rejected", HookError)
    /\ emitted' = <<>>
    /\ UNCHANGED <<nodes, now, disk, sweeps>>

----------------------------------------------------------------------------
(* Cache: tree composition *)

NodeRef(id) == "Cache#" \o ToString(id)

(* subcache, with `subkey` the key its first statement composes *)
subcacheAt(n, name, reviver, subkey) ==
    LET me == nodes[n]
        found == MapHas(me.dict, subkey) /\ MapGet(me.dict, subkey).kind = "Cache"
        id == Len(nodes) + 1
        child == NewCache([loader |-> me.loader, saver |-> me.saver,
                           checker |-> me.checker, deleter |-> me.deleter,
                           cacheKey |-> subkey, reviver |-> reviver])
    IN  /\ UNCHANGED <<now, disk, calls, sweeps>>
        /\ IF found
           THEN /\ ret' = Ret("subcache", n, name, "returned",
                              NodeRef(MapGet(me.dict, subkey).node))
                /\ emitted' = <<>>
                /\ nodes' = nodes
           ELSE /\ Len(nodes) < MaxNodes
                /\ nodes' = Append([nodes EXCEPT ![n].dict = MapSet(@, subkey, CacheEntry(subkey, id))],
                                   child)
                /\ emitted' = <<SubcreateEvent(n, subkey)>>
                /\ ret' = Ret("subcache", n, name, "returned", NodeRef(id))

(* a variant that joins the two keys without normalising the local one *)
subcacheUnfixed(n, name, reviver) == subcacheAt(n, name, reviver, nodes[n].cacheKey \o name)

subcache(n, name, reviver) ==
    subcacheAt(n, name, reviver, _subkey(nodes[n].separator, nodes[n].cacheKey, name))

(* {...opts, cacheKey: subkey}: an undefined cacheKey reads as an absent one *)
ChildOpts(opts, keyChanged, subkey) ==
    [f \in (DOMAIN opts \ {"cacheKey"}) \cup (IF keyChanged THEN {"cacheKey"} ELSE {}) |->
        IF f = "cacheKey" THEN subkey ELSE opts[f]]

RECURSIVE settingsOn(_, _, _, _)
RECURSIVE settingsLoop(_, _, _, _, _, _)

(* the body of `for (const k in dict)` of settings, from the i-th key on *)
settingsLoop(ns, n, opts, keyChanged, keys, i) ==
    IF i > Len(keys) THEN ns
    ELSE LET k == keys[i]
             d == ns[n].dict
         IN  IF MapHas(d, k) /\ MapGet(d, k).kind = "Cache"
             THEN settingsLoop(
                      settingsOn(ns, MapGet(d, k).node,
                                 ChildOpts(opts, keyChanged,
                                           _subkey(ns[n].separator, ns[n].cacheKey, k)),
                                 TRUE),
                      n, opts, keyChanged, keys, i + 1)
             ELSE settingsLoop(ns, n, opts, keyChanged, keys, i + 1)

settingsOn(ns, n, opts, propagate) ==
    LET me == ns[n]
        keyChanged == IF "cacheKey" \in DOMAIN opts THEN opts.cacheKey # me.cacheKey ELSE TRUE
        newKey == _fixKey(me.separator,
                          IF "cacheKey" \in DOMAIN opts THEN opts.cacheKey ELSE me.cacheKey)
        set == [me EXCEPT
                  !.loader  = IF "loader"  \in DOMAIN opts THEN opts.loader  ELSE @,
                  !.saver   = IF "saver"   \in DOMAIN opts THEN opts.saver   ELSE @,
                  !.checker = IF "checker" \in DOMAIN opts THEN opts.checker ELSE @,
                  !.deleter = IF "deleter" \in DOMAIN opts THEN opts.deleter ELSE @,
                  !.reviver = IF "reviver" \in DOMAIN opts THEN opts.reviver ELSE @,
                  !.cacheKey = newKey]
        ns1 == [ns EXCEPT ![n] = set]
    IN  IF propagate
        THEN settingsLoop(ns1, n, opts, keyChanged, ForInKeys(me.dict), 1)
        ELSE ns1

(* The options settings is called with, by index *)
SettingsOpts ==
    << [saver |-> "S2"],
       [cacheKey |-> <<"a">>, loader |-> Undef] >>

settings(n, o, propagate) ==
    /\ nodes' = settingsOn(nodes, n, SettingsOpts[o], propagate)
    /\ ret' = [Ret("settings", n, <<>>, "returned", Undef) EXCEPT !.opt = o, !.flag = propagate]
    /\ emitted' = <<>>
    /\ UNCHANGED <<now, disk, calls, sweeps>>

(* The property setters (`set cacheKey`, `set loader`, `set saver`,          *)
(* `set reviver`, `set deleter`): an assignment to the property of node n.  *)
(* Only cacheKey is converted, by _fixKey; nothing is passed on to the      *)
(* subcaches.                                                               *)
set_cacheKey(n, v) ==
    /\ nodes' = [nodes EXCEPT ![n].cacheKey = _fixKey(nodes[n].separator, v)]
    /\ ret' = Ret("set cacheKey", n, v, "returned", Undef)
    /\ emitted' = <<>>
    /\ UNCHANGED <<now, disk, calls, sweeps>>

set_loader(n, v) ==
    /\ nodes' = [nodes EXCEPT ![n].loader = v]
    /\ ret' = RetArg("set loader", n, <<>>, v, "returned", Undef)
    /\ emitted' = <<>>
    /\ UNCHANGED <<now, disk, calls, sweeps>>

set_saver(n, v) ==
    /\ nodes' = [nodes EXCEPT ![n].saver = v]
    /\ ret' = RetArg("set saver", n, <<>>, v, "returned", Undef)
    /\ emitted' = <<>>
    /\ UNCHANGED <<now, disk, calls, sweeps>>

set_reviver(n, v) ==
    /\ nodes' = [nodes EXCEPT ![n].reviver = v]
    /\ ret' = RetArg("set reviver", n, <<>>, v, "returned", Undef)
    /\ emitted' = <<>>
    /\ UNCHANGED <<now, disk, calls, sweeps>>

set_deleter(n, v) ==
    /\ nodes' = [nodes EXCEPT ![n].deleter = v]
    /\ ret' = RetArg("set deleter", n, <<>>, v, "returned", Undef)
    /\ emitted' = <<>>
    /\ UNCHANGED <<now, disk, calls, sweeps>>

----------------------------------------------------------------------------
(* SweepEngine.  A sweep of one node is a record of its kind, its node and  *)
(* the promises it pushed on `saves`, in order: a saver call in flight      *)
(* ("save"), a child's sweep ("child", the child's record in sub), or a     *)
(* promise that has a value ("done": a string in val, or an array in arr).  *)

SaveSlot(fullKey, data) ==
    [t |-> "save", fullKey |-> fullKey, data |-> data, sub |-> <<>>,
     val |-> Undef, isArr |-> FALSE, arr |-> <<>>]
ChildSlot(sw) ==
    [t |-> "child", fullKey |-> <<>>, data |-> Undef, sub |-> <<sw>>,
     val |-> Undef, isArr |-> FALSE, arr |-> <<>>]
DoneSlot(val) ==
    [t |-> "done", fullKey |-> <<>>, data |-> Undef, sub |-> <<>>,
     val |-> val, isArr |-> FALSE, arr |-> <<>>]
DoneArr(arr) ==
    [t |-> "done", fullKey |-> <<>>, data |-> Undef, sub |-> <<>>,
     val |-> "array", isArr |-> TRUE, arr |-> arr]
(* `emitted` tells that the then-callback of the sweep has run *)
Sweep(kind, n, time, slots) ==
    [kind |-> kind, node |-> n, time |-> time, slots |-> slots, emitted |-> FALSE]

AllDone(sw) == \A j \in 1..Len(sw.slots) : sw.slots[j].t = "done"
(* the array Promise.all resolves to *)
Vals(sw) == [j \in 1..Len(sw.slots) |->
                IF sw.slots[j].isArr THEN sw.slots[j].arr ELSE sw.slots[j].val]

RECURSIVE backupOn(_, _, _, _)
RECURSIVE backupLoop(_, _, _, _, _, _)

(* the body of `for (const item of dict.values())` of backup, from entry i on *)
backupLoop(ns, n, time, t, i, saves) ==
    IF i > Len(ns[n].dict) THEN saves
    ELSE LET item == ns[n].dict[i]
         IN  IF item.kind = "Cache"
             THEN backupLoop(ns, n, time, t, i + 1,
                             Append(saves, backupOn(ns, item.node, time, t)))
             ELSE IF item.dirty /\ (t - item.lastSave) > time
             THEN backupLoop(ns, n, time, t, i + 1,
                             Append(saves, SaveSlot(ns[n].cacheKey \o item.key, item.data)))
             ELSE backupLoop(ns, n, time, t, i + 1, saves)

(* the promise node.backup(time) returns *)
backupOn(ns, n, time, t) ==
    IF ns[n].saver = Undef THEN DoneSlot(Undef)
    ELSE ChildSlot(Sweep("backup", n, time, backupLoop(ns, n, time, t, 1, <<>>)))

RECURSIVE _cleanNoSave(_, _, _, _)
RECURSIVE cleanNoSaveLoop(_, _, _, _, _, _)

cleanNoSaveLoop(ns, n, time, t, keys, i) ==
    IF i > Len(keys) THEN ns
    ELSE LET k == keys[i]
             d == ns[n].dict
         IN  IF ~MapHas(d, k) THEN cleanNoSaveLoop(ns, n, time, t, keys, i + 1)
             ELSE IF MapGet(d, k).kind = "Cache"
             THEN cleanNoSaveLoop(_cleanNoSave(ns, MapGet(d, k).node, time, t),
                                  n, time, t, keys, i + 1)
             ELSE IF t - MapGet(d, k).lastAccess > time
             THEN cleanNoSaveLoop([ns EXCEPT ![n].dict = MapDelete(@, k)],
                                  n, time, t, keys, i + 1)
             ELSE cleanNoSaveLoop(ns, n, time, t, keys, i + 1)

_cleanNoSave(ns, n, time, t) ==
    cleanNoSaveLoop(ns, n, time, t, ForInKeys(ns[n].dict), 1)

RECURSIVE cleanupOn(_, _, _, _)
RECURSIVE cleanupLoop(_, _, _, _, _, _, _)

(* the body of `for (const k in dict)` of cleanup, from the i-th key on:    *)
(* the nodes as the loop leaves them, and the promises pushed on `saves`    *)
cleanupLoop(ns, n, time, t, keys, i, saves) ==
    IF i > Len(keys) THEN [ns |-> ns, saves |-> saves]
    ELSE LET k == keys[i]
             d == ns[n].dict
         IN  IF ~MapHas(d, k) THEN cleanupLoop(ns, n, time, t, keys, i + 1, saves)
             ELSE IF MapGet(d, k).kind = "Cache"
             THEN LET r == cleanupOn(ns, MapGet(d, k).node, time, t)
                  IN  cleanupLoop(r.ns, n, time, t, keys, i + 1, Append(saves, r.p))
             ELSE IF t - MapGet(d, k).lastAccess > time
             THEN LET item == MapGet(d, k)
                      ns1 == [ns EXCEPT ![n].dict = MapDelete(@, k)]
                  IN  cleanupLoop(ns1, n, time, t, keys, i + 1,
                                  IF item.dirty
                                  THEN Append(saves, SaveSlot(ns[n].cacheKey \o item.key, item.data))
                                  ELSE saves)
             ELSE cleanupLoop(ns, n, time, t, keys, i + 1, saves)

(* node.cleanup(time): the nodes after its synchronous part, and its promise *)
cleanupOn(ns, n, time, t) ==
    IF ns[n].saver = Undef
    THEN [ns |-> _cleanNoSave(ns, n, time, t), p |-> DoneSlot(Undef)]
    ELSE LET r == cleanupLoop(ns, n, time, t, ForInKeys(ns[n].dict), 1, <<>>)
         IN  [ns |-> r.ns, p |-> ChildSlot(Sweep("cleanup", n, time, r.saves))]

(* Promise.all(saves).then(vals => { emit(kind, this, vals); return vals }): *)
(* the then-callback of a sweep is a job of its own, run once every promise *)
(* on `saves` has a value.  The sweeps of sw's tree whose callback can run, *)
(* each by its path of slots (<<>> for sw itself):                          *)
RECURSIVE ReadySweeps(_)
ReadySweeps(sw) ==
    (IF AllDone(sw) /\ ~sw.emitted THEN {<<>>} ELSE {})
    \cup UNION { IF sw.slots[j].t = "child"
                 THEN {<<j>> \o q : q \in ReadySweeps(sw.slots[j].sub[1])}
                 ELSE {} : j \in 1..Len(sw.slots) }

RECURSIVE SweepAt(_, _)
SweepAt(sw, path) ==
    IF path = <<>> THEN sw ELSE SweepAt(sw.slots[path[1]].sub[1], Tail(path))

(* sw after the callback of the sweep at path has run: the sweep's promise  *)
(* has the array as its value in the parent's `saves`                       *)
RECURSIVE EmitAt(_, _)
EmitAt(sw, path) ==
    IF path = <<>> THEN [sw EXCEPT !.emitted = TRUE]
    ELSE IF Len(path) = 1
    THEN [sw EXCEPT !.slots[path[1]] = DoneArr(Vals(sw.slots[path[1]].sub[1]))]
    ELSE [sw EXCEPT !.slots[path[1]] =
             ChildSlot(EmitAt(sw.slots[path[1]].sub[1], Tail(path)))]

(* the saver calls of a sweep that are in flight, each by its path of slots *)
RECURSIVE PendingSaves(_)
PendingSaves(sw) ==
    UNION { IF sw.slots[j].t = "save" THEN {<<j>>}
            ELSE IF sw.slots[j].t = "child"
            THEN {<<j>> \o q : q \in PendingSaves(sw.slots[j].sub[1])}
            ELSE {} : j \in 1..Len(sw.slots) }

(* the saver calls of sweep sw and of the sweeps below it that are in flight *)
RECURSIVE SavesOf(_)
SavesOf(sw) ==
    UNION { IF sw.slots[j].t = "save"
            THEN {<<sw.node, sw.slots[j].fullKey, sw.slots[j].data>>}
            ELSE IF sw.slots[j].t = "child" THEN SavesOf(sw.slots[j].sub[1])
            ELSE {} : j \in 1..Len(sw.slots) }

RECURSIVE SlotAt(_, _)
SlotAt(sw, path) ==
    IF Len(path) = 1 THEN sw.slots[path[1]]
    ELSE SlotAt(sw.slots[path[1]].sub[1], Tail(path))

RECURSIVE SettleAt(_, _, _)
SettleAt(sw, path, val) ==
    IF Len(path) = 1 THEN [sw EXCEPT !.slots[path[1]] = DoneSlot(val)]
    ELSE [sw EXCEPT !.slots[path[1]] =
             ChildSlot(SettleAt(sw.slots[path[1]].sub[1], Tail(path), val))]

(* the caller gets the promise p of a sweep of node n: resolved to          *)
(* undefined for a node with no saver, otherwise pending until the          *)
(* then-callback of the node's sweep has run                                *)
StartSweep(kind, n, time, ns, p) ==
    /\ nodes' = ns
    /\ emitted' = <<>>
    /\ UNCHANGED <<now, disk, calls>>
    /\ IF p.t = "done"
       THEN /\ ret' = RetSweep(kind, n, time, "resolved", p.val)
            /\ sweeps' = sweeps
       ELSE /\ Len(sweeps) < MaxSweeps
            /\ ret' = RetSweep(kind, n, time, "pending", Undef)
            /\ sweeps' = Append(sweeps, p.sub[1])

backup(n, time) ==
    StartSweep("backup", n, time, nodes, backupOn(nodes, n, time, now))

(* a variant that visits every key of the Map and takes an entry for stale  *)
(* from `now - lastAccess >= time` on                                       *)
cleanupEager(n, time) ==
    LET r == cleanupLoop(nodes, n, time - 1, now, MapKeys(nodes[n].dict), 1, <<>>)
    IN  StartSweep("cleanup", n, time, r.ns, ChildSlot(Sweep("cleanup", n, time, r.saves)))

(* a variant that visits every key of the Map and dispatches the save of a  *)
(* stale dirty Item while the Item is still in the entries, leaving the     *)
(* removal to the save's continuation                                       *)
cleanupSavingFirst(n, time) ==
    LET r == cleanupLoop(nodes, n, time, now, MapKeys(nodes[n].dict), 1, <<>>)
    IN  StartSweep("cleanup", n, time, nodes, ChildSlot(Sweep("cleanup", n, time, r.saves)))

cleanup(n, time) ==
    LET r == cleanupOn(nodes, n, time, now)
    IN  StartSweep("cleanup", n, time, r.ns, r.p)

(* the backing store after the saver call of `slot` settled with val *)
SweepWrite(d, slot, val) ==
    IF val = HookError THEN d ELSE DiskWrite(d, slot.fullKey, slot.data)

(* a variant without the rejection handler: the saver's rejection rejects   *)
(* Promise.all and with it the sweep                                        *)
sweepSettledUncaught(i, path, val) ==
    /\ emitted' = <<>>
    /\ IF val = HookError
       THEN /\ ret' = [RetSweep(sweeps[i].kind, sweeps[i].node, sweeps[i].time, "rejected", HookError)
                          EXCEPT !.step = "settle"]
            /\ sweeps' = RemoveAt(sweeps, i)
            /\ UNCHANGED <<nodes, now, disk, calls>>
       ELSE /\ ret' = NoOp
            /\ sweeps' = [sweeps EXCEPT ![i] = SettleAt(@, path, val)]
            /\ disk' = SweepWrite(disk, SlotAt(sweeps[i], path), val)
            /\ UNCHANGED <<nodes, now, calls>>

(* a variant in which a save that succeeds marks its Item saved *)
sweepSettledMarking(i, path, val) ==
    LET m == SweepAt(sweeps[i], SubSeq(path, 1, Len(path) - 1)).node
        k == SlotAt(sweeps[i], path).fullKey
    IN  /\ emitted' = <<>>
        /\ ret' = NoOp
        /\ sweeps' = [sweeps EXCEPT ![i] = SettleAt(@, path, val)]
        /\ nodes' = [nodes EXCEPT ![m].dict =
                        [j \in 1..Len(@) |->
                            IF val # HookError /\ nodes[m].cacheKey \o @[j].key = k
                            THEN markSaved(@[j], 0, now) ELSE @[j]]]
        /\ disk' = SweepWrite(disk, SlotAt(sweeps[i], path), val)
        /\ UNCHANGED <<now, calls>>

(* a saver promise of a sweep settles with val: its resolved value, or the  *)
(* error that .then(null, err => err) turns into a value                    *)
sweepSettled(i, path, val) ==
    /\ emitted' = <<>>
    /\ ret' = NoOp
    /\ sweeps' = [sweeps EXCEPT ![i] = SettleAt(@, path, val)]
    /\ disk' = SweepWrite(disk, SlotAt(sweeps[i], path), val)
    /\ UNCHANGED <<nodes, now, calls>>

(* the then-callback of the sweep at path runs: it emits the sweep's event  *)
(* with the array and returns the array                                     *)
sweepEmitted(i, path) ==
    LET sw == SweepAt(sweeps[i], path) IN
    /\ emitted' = <<SweepEvent(sw.kind, sw.node, Vals(sw))>>
    /\ ret' = NoOp
    /\ sweeps' = [sweeps EXCEPT ![i] = EmitAt(@, path)]
    /\ UNCHANGED <<nodes, now, disk, calls>>

(* the promise the caller holds resolves to the array its sweep returned *)
sweepResolved(i) ==
    /\ sweeps[i].emitted
    /\ ret' = RetArr(sweeps[i].kind, sweeps[i].node, sweeps[i].time, "settle", Vals(sweeps[i]))
    /\ sweeps' = RemoveAt(sweeps, i)
    /\ emitted' = <<>>
    /\ UNCHANGED <<nodes, now, disk, calls>>

----------------------------------------------------------------------------
(* The steps of the caller and of the environment *)

Get == \E n \in NodeIds : \E key \in ItemKeys : get(n, key)
Has == \E n \in NodeIds : \E key \in ItemKeys : has(n, key)
CacheValue == \E n \in NodeIds : \E key \in ItemKeys : \E v \in Values : cache(n, key, v)
Free == \E n \in NodeIds : \E key \in KeysOf(n) : free(n, key)

Fetch == \E n \in NodeIds : \E key \in ItemKeys : fetch(n, key)
FetchLoaded == \E i \in 1..Len(calls) : \E data \in LoadValues : fetchLoaded(i, data)
FetchFailed == \E i \in 1..Len(calls) : fetchFailed(i)
Store == \E n \in NodeIds : \E key \in ItemKeys : \E v \in Values : store(n, key, v)
StoreSaved == \E i \in 1..Len(calls) : \E r \in SaveValues : storeSaved(i, r)
StoreFailed == \E i \in 1..Len(calls) : storeFailed(i)
Delete == \E n \in NodeIds : \E key \in KeysOf(n) : delete(n, key)
DeleteDone == \E i \in 1..Len(calls) : \E r \in DeleteValues : deleteDone(i, r)
DeleteFailed == \E i \in 1..Len(calls) : deleteFailed(i)
Exists == \E n \in NodeIds : \E key \in ItemKeys : exists(n, key)
ExistsChecked == \E i \in 1..Len(calls) : \E r \in CheckValues : existsChecked(i, r)
ExistsFailed == \E i \in 1..Len(calls) : existsFailed(i)

SweepTimes == {0, 1}
Revivers == {Undef}

Subcache == \E n \in NodeIds : \E name \in SubNames : \E r \in Revivers : subcache(n, name, r)
Settings == \E n \in NodeIds : \E o \in 1..Len(SettingsOpts) : \E propagate \in BOOLEAN :
                settings(n, o, propagate)
(* the values the caller assigns to the properties *)
SetKeys == {<<"a">>}
SetLoaders == {"L2", Undef}
SetSavers == {"S2", Undef}
SetRevivers == {"wrap"}
SetDeleters == {"D2"}
SetCacheKey == \E n \in NodeIds : \E v \in SetKeys : set_cacheKey(n, v)
SetLoader == \E n \in NodeIds : \E v \in SetLoaders : set_loader(n, v)
SetSaver == \E n \in NodeIds : \E v \in SetSavers : set_saver(n, v)
SetReviver == \E n \in NodeIds : \E v \in SetRevivers : set_reviver(n, v)
SetDeleter == \E n \in NodeIds : \E v \in SetDeleters : set_deleter(n, v)

Backup == \E n \in NodeIds : \E time \in SweepTimes : backup(n, time)
Cleanup == \E n \in NodeIds : \E time \in SweepTimes : cleanup(n, time)
SweepSaved == \E i \in 1..Len(sweeps) : \E path \in PendingSaves(sweeps[i]) :
                  \E r \in SaveValues : sweepSettled(i, path, r)
SweepSaveFailed == \E i \in 1..Len(sweeps) : \E path \in PendingSaves(sweeps[i]) :
                       sweepSettled(i, path, HookError)
SweepEmitted == \E i \in 1..Len(sweeps) : \E path \in ReadySweeps(sweeps[i]) :
                    sweepEmitted(i, path)
SweepResolved == \E i \in 1..Len(sweeps) : sweepResolved(i)

(* Spec: one node and the operations on its keys *)
Next ==
    \/ Tick \/ Get \/ Has \/ CacheValue \/ Free
    \/ Fetch \/ FetchLoaded \/ FetchFailed
    \/ Store \/ StoreSaved \/ StoreFailed
    \/ Delete \/ DeleteDone \/ DeleteFailed
    \/ Exists \/ ExistsChecked \/ ExistsFailed
    \/ SetReviver

Spec == Init /\ [][Next]_vars

----------------------------------------------------------------------------
(* Claims about the operations on keys, checked under Spec *)

EntryAt(n, k) == MapGet(nodes[n].dict, k)

(* the hook call that settles in the step: the one `calls` loses.  Its      *)
(* reviver is the one fetch read before it called the loader.               *)
SettledCall == calls[CHOOSE i \in 1..Len(calls) : calls' = RemoveAt(calls, i)]

(* the entries of node m that a saver call with fullKey is about *)
EntriesFor(ns, m, fullKey) ==
    {j \in 1..Len(ns[m].dict) : ns[m].cacheKey \o ns[m].dict[j].key = fullKey}

(* C2: while key k is resident in a node, fetch(k) (like get(k)) returns    *)
(* the resident data, refreshes lastAccess and calls no loader; after the   *)
(* local write of store(k, v) the entry for k holds v, so get(k) and        *)
(* fetch(k) return v with no loader call, with or without a saver.          *)
C2_ResidentFetchNoLoader ==
    [][ /\ (/\ ret'.op \in {"fetch", "get"}
            /\ ret'.step = "call"
            /\ MapHas(nodes[ret'.node].dict, ret'.key))
           => /\ ret'.val = nodes[ret'.node].dict[MapIndex(nodes[ret'.node].dict, ret'.key)].data
              /\ ret'.state = (IF ret'.op = "fetch" THEN "resolved" ELSE "returned")
              /\ calls' = calls
              /\ MapHas(nodes'[ret'.node].dict, ret'.key)
              /\ MapGet(nodes'[ret'.node].dict, ret'.key).lastAccess = now
        /\ (ret'.op = "store" /\ ret'.step = "call")
           => /\ MapHas(nodes'[ret'.node].dict, ret'.key)
              /\ MapGet(nodes'[ret'.node].dict, ret'.key).data = ret'.arg
              /\ \A i \in 1..Len(calls') : calls'[i].op = "fetch" => i <= Len(calls)
      ]_vars

(* a fetch of a resident key whose data is falsy, on a node with a loader *)
C2_Witness ==
    /\ ret.op = "fetch" /\ ret.step = "call" /\ ret.state = "resolved"
    /\ ret.val = "0"
    /\ nodes[ret.node].loader # Undef
    /\ MapHas(nodes[ret.node].dict, ret.key)
    /\ EntryAt(ret.node, ret.key).lastAccess = 2

(* C3: store(k, v) never rejects; it resolves to undefined when the saver   *)
(* succeeds, whatever the saver resolved to, to the error when the saver    *)
(* fails, and to undefined without a saver; the entry for k holds v after   *)
(* the call.                                                                *)
C3_StoreResolvesUndefinedOrError ==
    /\ (ret.op = "store" /\ ret.step = "call")
       => /\ MapHas(nodes[ret.node].dict, ret.key)
          /\ EntryAt(ret.node, ret.key).data = ret.arg
    /\ (ret.op = "store" /\ ret.state # "pending")
       => /\ ret.state = "resolved"
          /\ ret.val = (IF ret.hook = "rejected" THEN HookError ELSE Undef)

(* C4: fetch(k) of an absent key calls the loader with namespacePrefix + k, *)
(* and for every defined value the loader resolves to, falsy ones included, *)
(* resolves to reviver(value) (the value itself without a reviver) and      *)
(* installs an Item for k holding it, with dirty false and                  *)
(* lastAccess = lastSave.                                                   *)
C4_LoadedValueInstalled ==
    [][ /\ (/\ ret'.op = "fetch" /\ ret'.step = "call"
            /\ nodes[ret'.node].loader # Undef
            /\ ~MapHas(nodes[ret'.node].dict, ret'.key))
           => /\ ret'.state = "pending"
              /\ Len(calls') = Len(calls) + 1
              /\ calls'[Len(calls')].op = "fetch"
              /\ calls'[Len(calls')].key = ret'.key
              /\ calls'[Len(calls')].fullKey = nodes[ret'.node].cacheKey \o ret'.key
              /\ calls'[Len(calls')].hook = nodes[ret'.node].loader
        /\ (/\ ret'.op = "fetch" /\ ret'.step = "settle" /\ ret'.hook = "fulfilled"
            /\ ret'.arg # Undef
            /\ SettledCall.reviver # "throw")
           => LET expected == IF SettledCall.reviver = Undef THEN ret'.arg
                              ELSE "R(" \o ret'.arg \o ")"
                  e == MapGet(nodes'[ret'.node].dict, ret'.key)
              IN  /\ ret'.state = "resolved"
                  /\ ret'.val = expected
                  /\ MapHas(nodes'[ret'.node].dict, ret'.key)
                  /\ e.kind = "Item"
                  /\ e.data = expected
                  /\ e.dirty = FALSE
                  /\ e.lastAccess = e.lastSave
                  /\ e.lastSave = now
      ]_vars

(* the loader resolved to the falsy value 0 and the reviver was applied *)
C4_Witness ==
    /\ ret.op = "fetch" /\ ret.step = "settle" /\ ret.hook = "fulfilled"
    /\ ret.arg = "0"
    /\ ret.val = "R(0)"
    /\ MapHas(nodes[ret.node].dict, ret.key)
    /\ EntryAt(ret.node, ret.key).dirty = FALSE

(* C5: a fetch(k) miss that yields no value leaves the entries as they were *)
(* and resolves to undefined: with the loader resolving to undefined no     *)
(* event is emitted; with the loader rejecting or the reviver raising       *)
(* exactly one 'error' event ('fetch', k) is emitted; with no loader no     *)
(* hook is called.                                                          *)
C5_MissWithoutValue ==
    [][ /\ (/\ ret'.op = "fetch" /\ ret'.step = "settle"
            /\ \/ ret'.hook = "rejected"
               \/ ret'.arg = Undef
               \/ SettledCall.reviver = "throw")
           => /\ ret'.state = "resolved"
              /\ ret'.val = Undef
              /\ nodes' = nodes
              /\ MapHas(nodes'[ret'.node].dict, ret'.key) = MapHas(nodes[ret'.node].dict, ret'.key)
              /\ emitted' = (IF ret'.hook = "fulfilled" /\ ret'.arg = Undef THEN <<>>
                             ELSE <<ErrorEvent(ret'.node, "fetch", ret'.key)>>)
        /\ (/\ ret'.op = "fetch" /\ ret'.step = "call"
            /\ nodes[ret'.node].loader = Undef
            /\ ~MapHas(nodes[ret'.node].dict, ret'.key))
           => /\ ret'.state = "resolved"
              /\ ret'.val = Undef
              /\ nodes' = nodes
              /\ calls' = calls
              /\ emitted' = <<>>
      ]_vars

(* the loader rejected: one 'error' event, the key still absent *)
C5_Witness ==
    /\ ret.op = "fetch" /\ ret.step = "settle" /\ ret.hook = "rejected"
    /\ ret.state = "resolved" /\ ret.val = Undef
    /\ emitted = <<ErrorEvent(ret.node, "fetch", ret.key)>>
    /\ ~MapHas(nodes[ret.node].dict, ret.key)

(* the fetches of key k on node n whose loader is in flight *)
FetchesOf(cs, n, k) ==
    {i \in 1..Len(cs) : cs[i].op = "fetch" /\ cs[i].node = n /\ cs[i].key = k}

(* C15: every fetch(k) that starts while k is absent calls                  *)
(* loader(namespacePrefix + k) itself, whether or not another fetch of k is *)
(* waiting for its loader; each loader that resolves to a defined value     *)
(* writes the slot of k, over what an earlier one wrote, so the slot holds  *)
(* the value of the loader that resolved last, in whichever order the       *)
(* fetches started.                                                         *)
C15_MissesNotCoalesced ==
    [][ /\ (/\ ret'.op = "fetch" /\ ret'.step = "call"
            /\ ~MapHas(nodes[ret'.node].dict, ret'.key)
            /\ nodes[ret'.node].loader # Undef)
           => /\ Len(calls') = Len(calls) + 1
              /\ SubSeq(calls', 1, Len(calls)) = calls
              /\ calls'[Len(calls')].op = "fetch"
              /\ calls'[Len(calls')].hook = nodes[ret'.node].loader
              /\ calls'[Len(calls')].fullKey = nodes[ret'.node].cacheKey \o ret'.key
              /\ Cardinality(FetchesOf(calls', ret'.node, ret'.key))
                    = Cardinality(FetchesOf(calls, ret'.node, ret'.key)) + 1
        /\ (/\ ret'.op = "fetch" /\ ret'.step = "settle" /\ ret'.hook = "fulfilled"
            /\ ret'.arg # Undef
            /\ SettledCall.reviver # "throw")
           => /\ Len(calls') = Len(calls) - 1
              /\ Cardinality(FetchesOf(calls', ret'.node, ret'.key))
                    = Cardinality(FetchesOf(calls, ret'.node, ret'.key)) - 1
              /\ MapHas(nodes'[ret'.node].dict, ret'.key)
              /\ MapGet(nodes'[ret'.node].dict, ret'.key).data
                    = Revive(SettledCall.reviver, ret'.arg)
              /\ Cardinality(EntriesFor(nodes', ret'.node, nodes[ret'.node].cacheKey \o ret'.key)) = 1
      ]_vars

(* of two fetches of one absent key, both waiting for their loader at once, *)
(* one has resolved and written the slot while the other is still waiting   *)
C15_Witness ==
    /\ ret.op = "fetch" /\ ret.step = "settle" /\ ret.hook = "fulfilled"
    /\ ret.arg = "1"
    /\ MapHas(nodes[ret.node].dict, ret.key)
    /\ EntryAt(ret.node, ret.key).data = "1"
    /\ FetchesOf(calls, ret.node, ret.key) # {}

(* a hook call for fullKey is in flight *)
HookPending(fullKey) ==
    \/ \E i \in 1..Len(calls) : calls[i].fullKey = fullKey
    \/ \E i \in 1..Len(sweeps) : \E s \in SavesOf(sweeps[i]) : s[2] = fullKey

(* C16: on a node with a saver and no reviver, whenever no hook call for    *)
(* the key is in flight, an Item with dirty false holds the value the       *)
(* backing store holds under namespacePrefix + key (the value last saved or *)
(* loaded there), also after a store whose saver rejected.                  *)
C16_CleanItemMatchesStore ==
    \A n \in DOMAIN nodes :
       (nodes[n].saver # Undef /\ nodes[n].reviver = Undef)
       => \A j \in 1..Len(nodes[n].dict) :
             LET e == nodes[n].dict[j]
                 fullKey == nodes[n].cacheKey \o e.key
             IN  (e.kind = "Item" /\ ~e.dirty /\ ~HookPending(fullKey))
                 => /\ MapHas(disk, fullKey)
                    /\ MapGet(disk, fullKey).val = e.data

(* C19: every Item with dirty false has lastSave > 0: a fetch that loads    *)
(* creates its Item with lastSave = lastAccess > 0, cache() creates its     *)
(* Item dirty with lastSave 0, store() leaves its Item with dirty false and *)
(* lastSave > 0, and cache() on an existing Item sets dirty and leaves      *)
(* lastSave as it was.                                                      *)
C19_CleanItemsHaveSaveTime ==
    [][ /\ \A n \in DOMAIN nodes' : \A j \in 1..Len(nodes'[n].dict) :
              (nodes'[n].dict[j].kind = "Item" /\ ~nodes'[n].dict[j].dirty)
              => nodes'[n].dict[j].lastSave > 0
        /\ (/\ ret'.op = "fetch" /\ ret'.step = "settle" /\ ret'.hook = "fulfilled"
            /\ ret'.arg # Undef /\ SettledCall.reviver # "throw")
           => LET e == MapGet(nodes'[ret'.node].dict, ret'.key)
              IN  ~e.dirty /\ e.lastSave = e.lastAccess /\ e.lastSave > 0
        /\ ret'.op = "cache"
           => LET d == nodes[ret'.node].dict
                  e == MapGet(nodes'[ret'.node].dict, ret'.key)
              IN  /\ e.dirty
                  /\ e.data = ret'.arg
                  /\ e.lastSave = (IF MapHas(d, ret'.key) /\ MapGet(d, ret'.key).kind = "Item"
                                   THEN MapGet(d, ret'.key).lastSave ELSE 0)
        /\ (ret'.op = "store" /\ ret'.step = "call")
           => LET e == MapGet(nodes'[ret'.node].dict, ret'.key)
              IN  ~e.dirty /\ e.lastSave > 0 /\ e.lastSave = now
      ]_vars

(* cache() has rewritten an Item that store() had written: the Item is      *)
(* dirty and keeps the lastSave of the store                                *)
C19_Witness ==
    /\ ret.op = "cache"
    /\ MapHas(nodes[ret.node].dict, ret.key)
    /\ EntryAt(ret.node, ret.key).dirty
    /\ EntryAt(ret.node, ret.key).lastSave = 1
    /\ EntryAt(ret.node, ret.key).lastAccess = 2

(* C20: when the loader of fetch(k) resolves to a defined value, the slot of *)
(* k becomes a fresh non-dirty Item holding the loaded value, whatever the  *)
(* slot held: a value cache() or store() wrote while the loader was pending *)
(* is replaced, no saver call being made for it, and a key that delete() or *)
(* free() removed is resident again.                                        *)
C20_FetchInstallsUnconditionally ==
    [][ (/\ ret'.op = "fetch" /\ ret'.step = "settle" /\ ret'.hook = "fulfilled"
         /\ ret'.arg # Undef
         /\ SettledCall.reviver # "throw")
        => LET n == ret'.node
               v == Revive(SettledCall.reviver, ret'.arg)
           IN  /\ MapHas(nodes'[n].dict, ret'.key)
               /\ MapGet(nodes'[n].dict, ret'.key) = Item(ret'.key, v, FALSE, now)
               /\ ret'.state = "resolved" /\ ret'.val = v
               /\ \A j \in 1..Len(nodes[n].dict) :
                     nodes[n].dict[j].key # ret'.key
                     => MapGet(nodes'[n].dict, nodes[n].dict[j].key) = nodes[n].dict[j]
               /\ Len(calls') = Len(calls) - 1
               /\ \A i \in 1..Len(calls') : \E j \in 1..Len(calls) : calls'[i] = calls[j]
               /\ sweeps' = sweeps
      ]_vars

(* a loader has resolved and its value is in the slot, non-dirty, while the *)
(* saver of a store() of another value under the same key is in flight      *)
C20_Witness ==
    /\ ret.op = "fetch" /\ ret.step = "settle" /\ ret.hook = "fulfilled"
    /\ MapHas(nodes[ret.node].dict, ret.key)
    /\ EntryAt(ret.node, ret.key).data = ret.val
    /\ ~EntryAt(ret.node, ret.key).dirty
    /\ \E i \in 1..Len(calls) :
          /\ calls[i].op = "store" /\ calls[i].node = ret.node /\ calls[i].key = ret.key
          /\ calls[i].data # ret.val

(* SpecSweep: a tree of nodes, writes to it, and the two sweeps *)
InitSweep == InitWith(SweepRootOpts)

NextSweep ==
    \/ Tick \/ Get \/ CacheValue \/ Subcache
    \/ Backup \/ Cleanup \/ SweepSaved \/ SweepSaveFailed \/ SweepEmitted \/ SweepResolved

SpecSweep == InitSweep /\ [][NextSweep]_vars

----------------------------------------------------------------------------
(* Claims about the sweeps, checked under SpecSweep *)

(* the Cache objects below node n in the tree *)
RECURSIVE Descendants(_, _)
Descendants(ns, n) ==
    LET kids == {ns[n].dict[j].node : j \in {i \in 1..Len(ns[n].dict) : ns[n].dict[i].kind = "Cache"}}
    IN  kids \cup UNION {Descendants(ns, c) : c \in kids}

Stale(e, time) == e.kind = "Item" /\ now - e.lastAccess > time
Unsaved(e, time) == e.kind = "Item" /\ e.dirty /\ now - e.lastSave > time

(* the saver calls the sweep called in this step has dispatched, as         *)
(* <<node, fullKey, data>>, and how many of them the sweep of node n itself *)
(* made with (fullKey, data)                                                *)
Dispatched == IF Len(sweeps') > Len(sweeps) THEN SavesOf(sweeps'[Len(sweeps')]) ELSE {}
OwnSaves(n, fullKey, data) ==
    IF Len(sweeps') > Len(sweeps) /\ sweeps'[Len(sweeps')].node = n
    THEN Cardinality({j \in 1..Len(sweeps'[Len(sweeps')].slots) :
                        /\ sweeps'[Len(sweeps')].slots[j].t = "save"
                        /\ sweeps'[Len(sweeps')].slots[j].fullKey = fullKey
                        /\ sweeps'[Len(sweeps')].slots[j].data = data})
    ELSE 0

(* C1: cleanup(maxAge) on a node with a saver removes every Item of the     *)
(* node with now - lastAccess > maxAge; for a dirty one the saver is called *)
(* exactly once, with (namespacePrefix + k, the Item's data), for a         *)
(* non-dirty one not at all.                                                *)
C1_CleanupEvictsAndSaves ==
    [][ (/\ ret'.op = "cleanup" /\ ret'.step = "call"
         /\ nodes[ret'.node].saver # Undef)
        => \A j \in 1..Len(nodes[ret'.node].dict) :
              LET e == nodes[ret'.node].dict[j]
              IN  Stale(e, ret'.time)
                  => /\ ~MapHas(nodes'[ret'.node].dict, e.key)
                     /\ OwnSaves(ret'.node, nodes[ret'.node].cacheKey \o e.key, e.data)
                           = (IF e.dirty THEN 1 ELSE 0)
      ]_vars

(* C6: cleanup(maxAge) on a node with no saver removes every Item with      *)
(* now - lastAccess > maxAge in the node and in every descendant, dirty or  *)
(* not, calls no saver and emits no 'cleanup' event.                        *)
C6_CleanNoSaveEvicts ==
    [][ (/\ ret'.op = "cleanup" /\ ret'.step = "call"
         /\ nodes[ret'.node].saver = Undef)
        => /\ \A m \in {ret'.node} \cup Descendants(nodes, ret'.node) :
                 \A j \in 1..Len(nodes[m].dict) :
                    Stale(nodes[m].dict[j], ret'.time)
                    => ~MapHas(nodes'[m].dict, nodes[m].dict[j].key)
           /\ sweeps' = sweeps
           /\ calls' = calls
           /\ emitted' = <<>>
      ]_vars

(* C7: a sweep never removes a subcache entry, and it sweeps the            *)
(* descendants: a backup saves their dirty Items past the threshold and a   *)
(* cleanup evicts their stale Items (saving the dirty ones), each under the *)
(* descendant's own namespace prefix.                                       *)
C7_SweepsRecurse ==
    [][ (/\ ret'.op \in {"backup", "cleanup"} /\ ret'.step = "call"
         /\ nodes[ret'.node].saver # Undef)
        => /\ \A m \in DOMAIN nodes : \A j \in 1..Len(nodes[m].dict) :
                 nodes[m].dict[j].kind = "Cache"
                 => /\ MapHas(nodes'[m].dict, nodes[m].dict[j].key)
                    /\ MapGet(nodes'[m].dict, nodes[m].dict[j].key) = nodes[m].dict[j]
           /\ \A m \in Descendants(nodes, ret'.node) : \A j \in 1..Len(nodes[m].dict) :
                 LET e == nodes[m].dict[j]
                 IN  /\ (ret'.op = "backup" /\ nodes[m].saver # Undef /\ Unsaved(e, ret'.time))
                        => <<m, nodes[m].cacheKey \o e.key, e.data>> \in Dispatched
                     /\ (ret'.op = "cleanup" /\ Stale(e, ret'.time))
                        => /\ ~MapHas(nodes'[m].dict, e.key)
                           /\ (e.dirty /\ nodes[m].saver # Undef)
                              => <<m, nodes[m].cacheKey \o e.key, e.data>> \in Dispatched
      ]_vars

(* the part of C7 that is about backup alone *)
BackupRecurses ==
    [][ (/\ ret'.op = "backup" /\ ret'.step = "call"
         /\ nodes[ret'.node].saver # Undef)
        => /\ nodes' = nodes
           /\ \A m \in Descendants(nodes, ret'.node) : \A j \in 1..Len(nodes[m].dict) :
                 LET e == nodes[m].dict[j]
                 IN  (nodes[m].saver # Undef /\ Unsaved(e, ret'.time))
                     => <<m, nodes[m].cacheKey \o e.key, e.data>> \in Dispatched
      ]_vars

(* the sweeps of sw's tree whose then-callback has not run: sw and those    *)
(* below it                                                                 *)
RECURSIVE OpenSweeps(_)
OpenSweeps(sw) ==
    (IF sw.emitted THEN {} ELSE {sw})
    \cup UNION { IF sw.slots[j].t = "child" THEN OpenSweeps(sw.slots[j].sub[1]) ELSE {}
                 : j \in 1..Len(sw.slots) }
OpenNodes(ss) == UNION { {s.node : s \in OpenSweeps(ss[i])} : i \in 1..Len(ss) }

(* what a sweep of kind op saves: backup the dirty Items past the           *)
(* threshold, cleanup the stale dirty Items                                 *)
Eligible(op, e, time) ==
    IF op = "backup" THEN Unsaved(e, time) ELSE Stale(e, time) /\ e.dirty

(* the step emits the one event of an open sweep of was: every promise the  *)
(* sweep joined has a value, so no sweep below it is open; the event        *)
(* carries the sweep's node and the outcomes, one per joined promise; the   *)
(* sweep is not open afterwards                                             *)
EventsOf(was, is) ==
    /\ Len(emitted') = 1
    /\ \E s \in OpenSweeps(was) :
          /\ emitted'[1] = SweepEvent(s.kind, s.node, Vals(s))
          /\ Len(emitted'[1].arr) = Len(s.slots)
          /\ AllDone(s)
          /\ PendingSaves(s) = {}
          /\ OpenSweeps(s) = {s}
          /\ OpenSweeps(is) = OpenSweeps(was) \ {s}
             \/ \E p \in OpenSweeps(was) \ {s} : p \notin OpenSweeps(is)

(* one step of a sweep, as C12 has it *)
SweepJoinsStep ==
    /\ (/\ ret'.op \in {"backup", "cleanup"} /\ ret'.step = "call"
        /\ nodes[ret'.node].saver # Undef)
       => LET all == {ret'.node} \cup Descendants(nodes, ret'.node)
          IN  /\ \A m \in all : \A j \in 1..Len(nodes[m].dict) :
                    LET e == nodes[m].dict[j]
                    IN  Eligible(ret'.op, e, ret'.time)
                        => <<m, nodes[m].cacheKey \o e.key, e.data>> \in Dispatched
              /\ ret'.state = "pending"
              /\ emitted' = <<>>
              /\ Len(sweeps') = Len(sweeps) + 1
              /\ {s.node : s \in OpenSweeps(sweeps'[Len(sweeps')])}
                    = {m \in all : nodes[m].saver # Undef}
    /\ \A i \in 1..Len(sweeps) :
          (Len(sweeps') = Len(sweeps) /\ sweeps'[i] # sweeps[i])
          => IF emitted' = <<>>
             THEN /\ OpenSweeps(sweeps[i]) # {}
                  /\ Cardinality(PendingSaves(sweeps'[i])) = Cardinality(PendingSaves(sweeps[i])) - 1
             ELSE EventsOf(sweeps[i], sweeps'[i])
    /\ Len(sweeps') < Len(sweeps)
       => \E i \in 1..Len(sweeps) :
             /\ sweeps' = RemoveAt(sweeps, i)
             /\ OpenSweeps(sweeps[i]) = {}
             /\ ret'.op = sweeps[i].kind /\ ret'.node = sweeps[i].node
             /\ ret'.step = "settle" /\ ret'.state = "resolved"
             /\ ret'.arr = Vals(sweeps[i])
             /\ emitted' = <<>>
    /\ (emitted' # <<>> /\ emitted'[1].name \in {"backup", "cleanup"})
       => /\ Len(sweeps') = Len(sweeps)
          /\ sweeps' # sweeps

(* C12: a backup or cleanup of a node with a saver dispatches all eligible  *)
(* saves of the node and of its descendants in the call itself; a node's    *)
(* sweep resolves, and emits its event once, when every save it dispatched  *)
(* and every child's sweep has settled, a descendant's event before its     *)
(* ancestor's; the event carries the node and the outcomes array, one       *)
(* outcome per joined promise, and the caller's promise resolves to that    *)
(* array.                                                                   *)
C12_SweepJoins == [][SweepJoinsStep]_vars

(* the part of C12 that is about backup alone *)
BackupJoins ==
    [][ ret'.op = "cleanup" \/ SweepJoinsStep ]_vars

----------------------------------------------------------------------------
(* SpecBackup: one node, writes to it, its saver property, and backup *)
BackupRootOpts ==
    << [saver |-> "S1", cacheKey |-> <<"u", "/">>],
       [loader |-> "L1"] >>

InitBackup == InitWith(BackupRootOpts)

(* the writes of SpecBackup: cache writing "0" and store writing "1" under  *)
(* one key                                                                  *)
CacheItem == \E n \in NodeIds : cache(n, <<"a">>, "0")
StoreItem == \E n \in NodeIds : store(n, <<"a">>, "1")

NextBackup ==
    \/ Tick \/ CacheItem \/ StoreItem \/ SetSaver
    \/ Backup \/ SweepSaved \/ SweepSaveFailed \/ SweepEmitted \/ SweepResolved

SpecBackup == InitBackup /\ [][NextBackup]_vars

----------------------------------------------------------------------------
(* Claims about backup, checked under SpecBackup *)

(* C13: backup(maxAge) on a node with a saver calls                         *)
(* saver(namespacePrefix + key, data) once for each Item that is dirty with *)
(* now - lastSave > maxAge and for no other Item; a rejecting saver shows   *)
(* as its error in the outcomes and backup never rejects; on a node with no *)
(* saver backup resolves at once to undefined with no saver call, no event  *)
(* and no change of state.                                                  *)
C13_BackupSavesDueItems ==
    [][ /\ (ret'.op = "backup" /\ ret'.step = "call")
           => LET n == ret'.node
                  due == {j \in 1..Len(nodes[n].dict) : Unsaved(nodes[n].dict[j], ret'.time)}
              IN  IF nodes[n].saver = Undef
                  THEN /\ ret'.state = "resolved" /\ ret'.val = Undef
                       /\ emitted' = <<>>
                       /\ UNCHANGED <<nodes, calls, sweeps>>
                  ELSE /\ ret'.state \in {"pending", "resolved"}
                       /\ \A j \in 1..Len(nodes[n].dict) :
                             LET e == nodes[n].dict[j]
                             IN  OwnSaves(n, nodes[n].cacheKey \o e.key, e.data)
                                    = (IF j \in due THEN 1 ELSE 0)
                       /\ {s \in Dispatched : s[1] = n}
                             = {<<n, nodes[n].cacheKey \o nodes[n].dict[j].key, nodes[n].dict[j].data>>
                                   : j \in due}
                       /\ calls' = calls
        /\ ret'.op = "backup" => ret'.state # "rejected"
        /\ Len(sweeps') < Len(sweeps)
           => \E i \in 1..Len(sweeps) :
                 /\ sweeps' = RemoveAt(sweeps, i)
                 /\ ret'.op = "backup" /\ ret'.step = "settle" /\ ret'.state = "resolved"
                 /\ Len(ret'.arr) = Len(sweeps[i].slots)
                 /\ \A j \in 1..Len(ret'.arr) :
                       /\ ret'.arr[j] = sweeps[i].slots[j].val
                       /\ ret'.arr[j] \in SaveValues \cup {HookError}
        /\ \A i \in 1..Len(sweeps) :
              (Len(sweeps') = Len(sweeps) /\ sweeps'[i] # sweeps[i])
              => /\ Len(sweeps'[i].slots) = Len(sweeps[i].slots)
                 /\ \A j \in 1..Len(sweeps[i].slots) :
                       sweeps'[i].slots[j] # sweeps[i].slots[j]
                       => /\ sweeps[i].slots[j].t = "save"
                          /\ sweeps'[i].slots[j].t = "done"
                          /\ sweeps'[i].slots[j].val \in SaveValues \cup {HookError}
      ]_vars

(* a backup called with a saver assigned to the property has resolved to    *)
(* one outcome, the error its saver rejected with                           *)
C13_Witness ==
    /\ ret.op = "backup" /\ ret.step = "settle" /\ ret.state = "resolved"
    /\ Len(ret.arr) = 1
    /\ ret.arr[1] = HookError
    /\ nodes[ret.node].saver = "S2"
    /\ Len(nodes[ret.node].dict) = 1
    /\ nodes[ret.node].dict[1].dirty

(* the saver calls a backup(time) of node n would dispatch in state ns *)
WouldSave(ns, n, time) ==
    LET p == backupOn(ns, n, time, now)
    IN  IF p.t = "child" THEN SavesOf(p.sub[1]) ELSE {}

(* C14: backup leaves every Item as it is, when it is called and when its   *)
(* saves settle: an Item whose save succeeded is still in the entries with  *)
(* dirty true and the same lastSave, lastAccess and data, so a backup with  *)
(* the same maxAge called next (the node still having a saver) dispatches   *)
(* the saver for it again.                                                  *)
C14_BackupLeavesItemsDirty ==
    [][ /\ (\/ ret'.op = "backup"
            \/ sweeps' # sweeps)
           => nodes' = nodes
        /\ \A i \in 1..Len(sweeps) :
              (Len(sweeps') = Len(sweeps) /\ sweeps'[i] # sweeps[i])
              => LET was == sweeps[i]
                 IN  \A s \in SavesOf(was) \ SavesOf(sweeps'[i]) :
                        \A j \in EntriesFor(nodes, s[1], s[2]) :
                           LET e == nodes[s[1]].dict[j]
                           IN  (Unsaved(e, was.time) /\ nodes[was.node].saver # Undef)
                               => /\ nodes'[s[1]].dict[j] = e
                                  /\ <<s[1], s[2], e.data>> \in WouldSave(nodes', was.node, was.time)
      ]_vars

(* a backup has resolved with its saver's success as the one outcome, and   *)
(* the Item it saved is still dirty, never marked saved and due again       *)
C14_Witness ==
    /\ ret.op = "backup" /\ ret.step = "settle" /\ ret.state = "resolved"
    /\ ret.arr = <<"saved">>
    /\ Len(nodes[ret.node].dict) = 1
    /\ nodes[ret.node].dict[1].dirty
    /\ nodes[ret.node].dict[1].lastSave = 0
    /\ <<ret.node, nodes[ret.node].cacheKey \o nodes[ret.node].dict[1].key,
         nodes[ret.node].dict[1].data>> \in WouldSave(nodes, ret.node, ret.time)

----------------------------------------------------------------------------
(* SpecTree: building the tree and changing its settings *)
InitTree == InitWith(TreeRootOpts)

NextTree ==
    \/ Subcache \/ Settings \/ CacheValue

SpecTree == InitTree /\ [][NextTree]_vars

----------------------------------------------------------------------------
(* Claims about the tree, checked under SpecTree *)

HookFields == {"loader", "saver", "checker", "deleter", "reviver"}

(* a local key with the separator at its end *)
Normalized(sep, name) ==
    IF name # <<>> /\ name[Len(name)] = sep THEN name ELSE name \o <<sep>>

(* C8: subcache(localKey) on a node that already holds a subcache under     *)
(* compose(prefix, localKey) returns that node, creates no entry and emits  *)
(* nothing, and operations on other keys leave the subcache entry in        *)
(* place; the call that creates the subcache emits 'subcreate' once and     *)
(* gives the new node the prefix compose(prefix, localKey) and the parent's *)
(* loader, saver, checker and deleter of that moment.                       *)
C8_SubcacheIdempotent ==
    [][ /\ ret'.op = "subcache"
           => LET n == ret'.node
                  local == IF ret'.key # <<>> /\ ret'.key[Len(ret'.key)] = nodes[n].separator
                           THEN ret'.key ELSE ret'.key \o <<nodes[n].separator>>
                  composed == nodes[n].cacheKey \o local
                  d == nodes[n].dict
              IN  IF \E j \in 1..Len(d) : d[j].key = composed /\ d[j].kind = "Cache"
                  THEN /\ nodes' = nodes
                       /\ emitted' = <<>>
                       /\ \E j \in 1..Len(d) : /\ d[j].key = composed
                                               /\ ret'.val = NodeRef(d[j].node)
                  ELSE /\ Len(nodes') = Len(nodes) + 1
                       /\ ret'.val = NodeRef(Len(nodes'))
                       /\ emitted' = <<SubcreateEvent(n, composed)>>
                       /\ nodes'[Len(nodes')].cacheKey = composed
                       /\ nodes'[Len(nodes')].loader = nodes[n].loader
                       /\ nodes'[Len(nodes')].saver = nodes[n].saver
                       /\ nodes'[Len(nodes')].checker = nodes[n].checker
                       /\ nodes'[Len(nodes')].deleter = nodes[n].deleter
                       /\ nodes'[Len(nodes')].dict = <<>>
                       /\ Cardinality({j \in 1..Len(nodes'[n].dict) :
                                          nodes'[n].dict[j].key = composed}) = 1
                       /\ MapGet(nodes'[n].dict, composed).kind = "Cache"
                       /\ MapGet(nodes'[n].dict, composed).node = Len(nodes')
                       /\ \A m \in DOMAIN nodes : m # n => nodes'[m] = nodes[m]
        /\ \A m \in DOMAIN nodes : \A j \in 1..Len(nodes[m].dict) :
              (/\ nodes[m].dict[j].kind = "Cache"
               /\ ~(/\ ret'.op \in {"cache", "free"}
                    /\ ret'.node = m
                    /\ ret'.key = nodes[m].dict[j].key))
              => /\ MapHas(nodes'[m].dict, nodes[m].dict[j].key)
                 /\ MapGet(nodes'[m].dict, nodes[m].dict[j].key) = nodes[m].dict[j]
      ]_vars

(* a second subcache call returns the node the first one created, after a   *)
(* write to another key of the parent                                       *)
C8_Witness ==
    /\ ret.op = "subcache" /\ ret.node = 1
    /\ ret.val = NodeRef(2)
    /\ emitted = <<>>
    /\ Len(nodes) = 2
    /\ MapHas(nodes[1].dict, <<"a">>)
    /\ Len(nodes[1].dict) = 2

(* C9: settings(opts, propagate) overwrites on the node exactly the hook    *)
(* fields present in opts; with propagate the same hooks are overwritten on *)
(* every descendant, without it no descendant's hook changes; no entry of   *)
(* any Map is touched.                                                      *)
C9_SettingsPropagate ==
    [][ ret'.op = "settings"
        => LET o == SettingsOpts[ret'.opt]
           IN  /\ \A h \in HookFields :
                     nodes'[ret'.node][h] =
                        (IF h \in DOMAIN o THEN o[h] ELSE nodes[ret'.node][h])
               /\ \A m \in Descendants(nodes, ret'.node) : \A h \in HookFields :
                     nodes'[m][h] =
                        (IF ret'.flag /\ h \in DOMAIN o THEN o[h] ELSE nodes[m][h])
               /\ \A m \in DOMAIN nodes : nodes'[m].dict = nodes[m].dict
      ]_vars

(* the entries of node p that hold a subcache *)
ChildEntries(ns, p) == {j \in 1..Len(ns[p].dict) : ns[p].dict[j].kind = "Cache"}

(* C18: settings(opts, propagate = true) with a cacheKey that changes the   *)
(* node's prefix gives every child, and every node below, the prefix of its *)
(* parent followed by its normalized local key; when the node's prefix does *)
(* not change (no cacheKey in opts, or the same key) every descendant's     *)
(* prefix is left as it was.                                                *)
C18_SettingsRecomputePrefixes ==
    [][ (ret'.op = "settings" /\ ret'.flag)
        => LET n == ret'.node
           IN  IF nodes'[n].cacheKey # nodes[n].cacheKey
               THEN \A p \in {n} \cup Descendants(nodes, n) : \A j \in ChildEntries(nodes, p) :
                       \E name \in SubNames :
                          nodes'[nodes[p].dict[j].node].cacheKey
                             = nodes'[p].cacheKey \o Normalized(nodes[p].separator, name)
               ELSE \A m \in Descendants(nodes, n) : nodes'[m].cacheKey = nodes[m].cacheKey
      ]_vars

----------------------------------------------------------------------------
(* SpecPrefix: roots constructed with and without a cacheKey, the tree      *)
(* built on them, settings, and fetches that call the loader                *)
PrefixRootOpts ==
    << [loader |-> "L1"],
       [loader |-> "L1", cacheKey |-> <<"a">>],
       [loader |-> "L1", cacheKey |-> <<>>] >>

InitPrefix == InitWith(PrefixRootOpts)

NextPrefix ==
    \/ Subcache \/ Settings \/ Fetch \/ FetchLoaded

SpecPrefix == InitPrefix /\ [][NextPrefix]_vars

----------------------------------------------------------------------------
(* Claims about the namespace prefixes, checked under SpecPrefix *)

(* C17: every node's namespace prefix ends with the separator, whatever     *)
(* cacheKey the root was constructed with and after settings and subcache;  *)
(* a child's prefix is its parent's prefix followed by the normalized local *)
(* key; every hook call receives namespacePrefix + localKey.                *)
C17_PrefixesEndWithSeparator ==
    [][ /\ \A n \in DOMAIN nodes' :
              /\ nodes'[n].cacheKey # <<>>
              /\ nodes'[n].cacheKey[Len(nodes'[n].cacheKey)] = nodes'[n].separator
        /\ \A n \in DOMAIN nodes' : \A j \in 1..Len(nodes'[n].dict) :
              nodes'[n].dict[j].kind = "Cache"
              => \E name \in SubNames :
                    nodes'[nodes'[n].dict[j].node].cacheKey
                       = nodes'[n].cacheKey \o Normalized(nodes'[n].separator, name)
        /\ Len(calls') > Len(calls)
           => calls'[Len(calls')].fullKey
                 = nodes[calls'[Len(calls')].node].cacheKey \o calls'[Len(calls')].key
      ]_vars

----------------------------------------------------------------------------
(* SpecDelete: a tree of nodes, writes to it, and delete *)
InitDelete == InitWith(DeleteRootOpts)

NextDelete ==
    \/ Subcache \/ CacheValue \/ Has
    \/ Delete \/ DeleteDone \/ DeleteFailed \/ SetDeleter

SpecDelete == InitDelete /\ [][NextDelete]_vars

----------------------------------------------------------------------------
(* Claims about delete, checked under SpecDelete *)

(* C10: delete(k) removes the entry for k, Item or subcache, before the     *)
(* deleter is called, so the entry is gone while the deleter's promise is   *)
(* pending; delete never rejects: it resolves to the error when the deleter *)
(* fails, and without a deleter it only removes the entry and resolves to   *)
(* undefined.                                                               *)
C10_DeleteRemovesThenCalls ==
    [][ /\ (ret'.op = "delete" /\ ret'.step = "call")
           => LET n == ret'.node IN
              /\ ~MapHas(nodes'[n].dict, ret'.key)
              /\ \A j \in 1..Len(nodes[n].dict) :
                    nodes[n].dict[j].key # ret'.key
                    => /\ MapHas(nodes'[n].dict, nodes[n].dict[j].key)
                       /\ MapGet(nodes'[n].dict, nodes[n].dict[j].key) = nodes[n].dict[j]
              /\ IF nodes[n].deleter # Undef
                 THEN /\ ret'.state = "pending"
                      /\ Len(calls') = Len(calls) + 1
                      /\ SubSeq(calls', 1, Len(calls)) = calls
                      /\ calls'[Len(calls')].op = "delete"
                      /\ calls'[Len(calls')].hook = nodes[n].deleter
                      /\ calls'[Len(calls')].fullKey = nodes[n].cacheKey \o ret'.key
                 ELSE /\ ret'.state = "resolved"
                      /\ ret'.val = Undef
                      /\ calls' = calls
        /\ (ret'.op = "delete" /\ ret'.step = "settle")
           => /\ ret'.state = "resolved"
              /\ ret'.hook = "rejected" => ret'.val = HookError
              /\ nodes' = nodes
      ]_vars

(* the deleter is pending for a subcache that delete has already removed *)
C10_Witness ==
    /\ ret.op = "delete" /\ ret.step = "call" /\ ret.state = "pending"
    /\ ret.node = 1
    /\ ret.key = <<"/", "u", "/">>
    /\ Len(nodes) = 2
    /\ ~MapHas(nodes[1].dict, ret.key)
    /\ calls # <<>>
    /\ calls[Len(calls)].fullKey = <<"/", "/", "u", "/">>

----------------------------------------------------------------------------
(* SpecRace: one node with a loader and a saver, its reads and writes, its *)
(* loader and cacheKey properties, and the sweeps                          *)
RaceRootOpts ==
    << [loader |-> "L1", saver |-> "S1"] >>
InitRace == InitWith(RaceRootOpts)

NextRace ==
    \/ Tick \/ CacheValue \/ SetLoader \/ SetCacheKey
    \/ Fetch \/ FetchLoaded
    \/ Backup \/ Cleanup \/ SweepSaved \/ SweepSaveFailed \/ SweepEmitted \/ SweepResolved

SpecRace == InitRace /\ [][NextRace]_vars

----------------------------------------------------------------------------
(* SpecFresh: one node with or without a saver, the reads and writes        *)
(* that refresh an Item or do not, and cleanup                              *)
FreshRootOpts ==
    << [saver |-> "S1"],
       [checker |-> "C1"] >>
InitFresh == InitWith(FreshRootOpts)

NextFresh ==
    \/ Tick \/ Get \/ Has \/ Exists \/ ExistsChecked \/ CacheValue \/ Fetch
    \/ Cleanup \/ SweepEmitted \/ SweepResolved

SpecFresh == InitFresh /\ [][NextFresh]_vars

----------------------------------------------------------------------------
(* Claims about sweeps that race with reads, checked under SpecRace (C21)   *)
(* and SpecFresh (C11, C22)                                                 *)

(* the saver calls for fullKey that cleanup sweeps have in flight *)
EvictionSaves(ss, fullKey) ==
    UNION { {s \in SavesOf(ss[i]) : s[2] = fullKey}
            : i \in {j \in 1..Len(ss) : ss[j].kind = "cleanup"} }

(* C21: cleanup on a node with a saver and a loader evicts a stale dirty    *)
(* Item k and leaves its save pending; while that save is pending fetch(k)  *)
(* (k not written again) is a miss that calls the loader with               *)
(* namespacePrefix + k, and what the loader resolves to is installed as a   *)
(* non-dirty Item.  So after the save has settled k can be resident, not    *)
(* dirty, with data other than the value saved (StaleRead).                 *)
C21_FetchRacesEvictionSave ==
    [][ /\ (/\ ret'.op = "cleanup" /\ ret'.step = "call"
            /\ nodes[ret'.node].saver # Undef /\ nodes[ret'.node].loader # Undef)
           => \A j \in 1..Len(nodes[ret'.node].dict) :
                 LET e == nodes[ret'.node].dict[j]
                 IN  (Stale(e, ret'.time) /\ e.dirty)
                     => /\ ret'.state = "pending"
                        /\ ~MapHas(nodes'[ret'.node].dict, e.key)
                        /\ \E s \in EvictionSaves(sweeps', nodes[ret'.node].cacheKey \o e.key) :
                              s[3] = e.data
        /\ (/\ ret'.op = "fetch" /\ ret'.step = "call"
            /\ nodes[ret'.node].loader # Undef
            /\ EvictionSaves(sweeps, nodes[ret'.node].cacheKey \o ret'.key) # {}
            /\ ~MapHas(nodes[ret'.node].dict, ret'.key))
           => /\ ret'.state = "pending"
              /\ Len(calls') = Len(calls) + 1
              /\ calls'[Len(calls')].hook = nodes[ret'.node].loader
              /\ calls'[Len(calls')].fullKey = nodes[ret'.node].cacheKey \o ret'.key
              /\ nodes' = nodes
        /\ (/\ ret'.op = "fetch" /\ ret'.step = "settle" /\ ret'.hook = "fulfilled"
            /\ ret'.arg # Undef /\ SettledCall.reviver = Undef)
           => /\ MapHas(nodes'[ret'.node].dict, ret'.key)
              /\ ~MapGet(nodes'[ret'.node].dict, ret'.key).dirty
              /\ MapGet(nodes'[ret'.node].dict, ret'.key).data = ret'.arg
      ]_vars

(* the state C21 describes: the saves of a cleanup have settled, the last   *)
(* of them fulfilled, and a key whose value the backing store now holds is  *)
(* resident, not dirty, with other data                                     *)
StaleRead ==
    /\ ret.op = "cleanup" /\ ret.step = "settle"
    /\ Len(ret.arr) > 0 /\ ret.arr[Len(ret.arr)] # HookError
    /\ \E j \in 1..Len(nodes[ret.node].dict) :
          LET e == nodes[ret.node].dict[j]
              fullKey == nodes[ret.node].cacheKey \o e.key
          IN  /\ e.kind = "Item" /\ ~e.dirty
              /\ MapHas(disk, fullKey)
              /\ MapGet(disk, fullKey).val # e.data

C22_CleanupKeepsFreshItems ==
    [][ /\ (ret'.op = "cleanup" /\ ret'.step = "call")
           => \A m \in {ret'.node} \cup Descendants(nodes, ret'.node) :
                 \A j \in 1..Len(nodes[m].dict) :
                    LET e == nodes[m].dict[j]
                    IN  (e.kind = "Item" /\ now - e.lastAccess <= ret'.time)
                        => /\ MapHas(nodes'[m].dict, e.key)
                           /\ MapGet(nodes'[m].dict, e.key) = e
                           /\ EvictionSaves(sweeps', nodes[m].cacheKey \o e.key) = {}
        /\ (/\ \/ ret'.op = "get"
               \/ ret'.op = "cache"
               \/ ret'.op = "fetch" /\ ret'.step = "call" /\ ret'.state = "resolved"
            /\ MapHas(nodes'[ret'.node].dict, ret'.key)
            /\ MapGet(nodes'[ret'.node].dict, ret'.key).kind = "Item")
           => MapGet(nodes'[ret'.node].dict, ret'.key).lastAccess = now
        /\ (ret'.op \in {"has", "exists"}) => nodes' = nodes
      ]_vars

(* cleanup(0) has run over a dirty Item written at the time of the sweep,   *)
(* and the Item is resident *)
C22_Witness ==
    /\ ret.op = "cleanup" /\ ret.step = "call" /\ ret.time = 0
    /\ nodes[ret.node].saver # Undef
    /\ now = MaxTime
    /\ \E j \in 1..Len(nodes[ret.node].dict) :
          LET e == nodes[ret.node].dict[j]
          IN  e.kind = "Item" /\ e.dirty /\ e.lastAccess = now /\ e.lastSave = 0

====
